---- MODULE Spec2Model ----
(***************************************************************************)
(* Model of the RNA structure designer (rna_structure/rna_designer.py),    *)
(* its caller generate_sequence_from_dot_bracket (rna_structure/example.py)*)
(* and the diagnostic validator analyze_structure                          *)
(* (rna_structure/structure_validator.py).                                 *)
(*                                                                         *)
(* A string is a sequence of one-character strings.  Positions are the     *)
(* 0-based positions of the Python code: the character at position i of s  *)
(* is s[i + 1].                                                            *)
(***************************************************************************)
EXTENDS Integers, Sequences, FiniteSets, TLC

\* ------------------------------------------------------------------ bounds
\* Longest structure pattern given to the program.
MaxLen == 4
\* A draw of the random module is a value d in 0..Resolution-1 standing for
\* the fraction d / Resolution of the unit interval.
Resolution == 4
\* Longest stream of draws taken from the random module after seeding.
MaxStream == 4
\* Longest string given to the analyzers alone.
MaxAnalyzeLen == 7
\* Longest notation built from a pair list, and the longest pair list.
MaxBuildLen == 4
MaxPairs == 2

\* ------------------------------------------------------------------ inputs
\* '.', '(' and ')' are the notation; "x" stands for any other character.
Chars == {".", "(", ")", "x"}

Strings == UNION {[1..n -> Chars] : n \in 0..MaxLen}

\* The pair lists given with a length n: 1-based positions, with 0 and
\* n + 1 for the positions out of range.
PairLists(n) == UNION {[1..k -> (0..(n + 1)) \X (0..(n + 1))] : k \in 0..MaxPairs}

AnalyzeStrings == UNION {[1..n -> Chars] : n \in 0..MaxAnalyzeLen}

\* The two design calls of a run.
Calls == {1, 2}

\* ------------------------------------------------------- program constants
BASE_PAIRS == {<<"G", "C">>, <<"C", "G">>, <<"A", "U">>, <<"U", "A">>}

UNPAIRED_BASES == <<"A", "C", "G", "U">>

\* random.random() < 0.7, in tenths
GCThresholdTenths == 7

GC_CHOICES == << <<"G", "C">>, <<"C", "G">> >>

AU_CHOICES == << <<"A", "U">>, <<"U", "A">> >>

\* The exceptions of the designer: ValueError(msg), where the last message
\* is formatted with the offending character.  No exception carries a
\* position.
NoError == [msg |-> "", char |-> ""]

ErrLength == [msg |-> "Structure pattern length must match sequence length", char |-> ""]

ErrUnmatched == [msg |-> "Invalid structure pattern: unmatched brackets", char |-> ""]

ErrInvalidChar(char) == [msg |-> "Invalid character in structure pattern: ", char |-> char]

\* ---------------------------------------------------------------- helpers
Range(f) == {f[x] : x \in DOMAIN f}

\* a queue where the code has a stack
Pop_fifo(stack) == [top |-> stack[1], rest |-> SubSeq(stack, 2, Len(stack))]

\* the element read and left on the stack
Pop_keep(stack) == [top |-> stack[Len(stack)], rest |-> stack]

\* list.pop(): the last element and the list without it
Pop(stack) == [top |-> stack[Len(stack)], rest |-> SubSeq(stack, 1, Len(stack) - 1)]

\* ------------------------------------------- RNADesigner._validate_params
\* After the loop: opens left on the stack are an error.
ScanEnd_ignore(stack) == NoError

ScanEnd(stack) == IF stack # <<>> THEN ErrUnmatched ELSE NoError

RECURSIVE ValidateScan(_, _, _)
ValidateScan(s, i, stack) ==
    IF i >= Len(s)
    THEN ScanEnd(stack)
    ELSE LET char == s[i + 1] IN
         IF char = "(" THEN ValidateScan(s, i + 1, Append(stack, char))
         ELSE IF char = ")"
              THEN IF stack = <<>> THEN ErrUnmatched
                   ELSE ValidateScan(s, i + 1, Pop(stack).rest)
         ELSE IF char # "." THEN ErrInvalidChar(char)
         ELSE ValidateScan(s, i + 1, stack)

\* the characters checked before the brackets, as analyze_structure does
validate_params_chars_first(structure, length) ==
    IF Len(structure) # length THEN ErrLength
    ELSE IF \E k \in 1..Len(structure) : structure[k] \notin {".", "(", ")"}
         THEN ErrInvalidChar(structure[CHOOSE k \in 1..Len(structure) :
                  /\ structure[k] \notin {".", "(", ")"}
                  /\ \A m \in 1..(k - 1) : structure[m] \in {".", "(", ")"}])
         ELSE ValidateScan(structure, 0, <<>>)

\* the length checked after the notation
validate_params_length_last(structure, length) ==
    IF ValidateScan(structure, 0, <<>>) # NoError THEN ValidateScan(structure, 0, <<>>)
    ELSE IF Len(structure) # length THEN ErrLength
    ELSE NoError

\* The exception _validate_params raises, NoError when it returns.
validate_params(structure, length) ==
    IF Len(structure) # length THEN ErrLength
    ELSE ValidateScan(structure, 0, <<>>)

\* ------------------------------- RNADesigner.design_structure, first pass
RECURSIVE PairScan(_, _, _, _)
PairScan(s, i, stack, pairs) ==
    IF i >= Len(s) THEN pairs
    ELSE LET char == s[i + 1] IN
         IF char = "(" THEN PairScan(s, i + 1, Append(stack, i), pairs)
         ELSE IF char = ")" /\ stack # <<>>
              THEN PairScan(s, i + 1, Pop(stack).rest,
                            Append(pairs, <<Pop(stack).top, i>>))
         ELSE PairScan(s, i + 1, stack, pairs)

\* the scan begun one position late
identify_paired_positions_late(s) == PairScan(s, 1, <<>>, <<>>)

identify_paired_positions(s) == PairScan(s, 0, <<>>, <<>>)

\* ------------------------------------------------------ the random module
\* random.random() < 0.7 for the draw d, i.e. d / Resolution < 7 / 10
IsGC_inverted(d) == 10 * d >= GCThresholdTenths * Resolution

IsGC(d) == 10 * d < GCThresholdTenths * Resolution

\* the last element never chosen
choice_never_last(seq, d) == seq[((d * (Len(seq) - 1)) \div Resolution) + 1]

\* random.choice(seq) for the draw d: the element the fraction falls on
choice(seq, d) == seq[((d * Len(seq)) \div Resolution) + 1]

\* --------------------------------------- structure_validator.analyze_structure
Issue(text, pos, positions, chars, opening, closing) ==
    [text |-> text, pos |-> pos, positions |-> positions, chars |-> chars,
     opening |-> opening, closing |-> closing]

IssueInvalidChars(chars) == Issue("Invalid characters found", -1, <<>>, chars, 0, 0)

IssueUnmatchedClose(i) == Issue("Unmatched closing bracket at position", i, <<>>, {}, 0, 0)

IssueUnmatchedOpen(stack) == Issue("Unmatched opening brackets at positions", -1, stack, {}, 0, 0)

IssueUnbalanced(o, c) == Issue("Unbalanced brackets", -1, <<>>, {}, o, c)

\* only the first unmatched ')' reported
ReportUnmatchedClose_once(r, i) ==
    IF \E k \in 1..Len(r.issues) : r.issues[k].pos >= 0
    THEN [r EXCEPT !.closing_brackets = @ + 1]
    ELSE [r EXCEPT !.closing_brackets = @ + 1,
                   !.valid = FALSE,
                   !.issues = Append(@, IssueUnmatchedClose(i))]

\* the unmatched ')' left out of the count of closing brackets
ReportUnmatchedClose_uncounted(r, i) ==
    [r EXCEPT !.valid = FALSE,
              !.issues = Append(@, IssueUnmatchedClose(i))]

\* A ')' met with an empty stack.
ReportUnmatchedClose(r, i) ==
    [r EXCEPT !.closing_brackets = @ + 1,
              !.valid = FALSE,
              !.issues = Append(@, IssueUnmatchedClose(i))]

\* The loop of analyze_structure from position i on: the result record and
\* the stack it ends with.
RECURSIVE AnalyzeScan(_, _, _, _)
AnalyzeScan(s, i, stack, r) ==
    IF i >= Len(s) THEN [result |-> r, stack |-> stack]
    ELSE LET char == s[i + 1] IN
         IF char = "." THEN AnalyzeScan(s, i + 1, stack, [r EXCEPT !.dots = @ + 1])
         ELSE IF char = "("
              THEN AnalyzeScan(s, i + 1, Append(stack, i),
                               [r EXCEPT !.opening_brackets = @ + 1])
         ELSE IF char = ")"
              THEN IF stack = <<>>
                   THEN AnalyzeScan(s, i + 1, stack, ReportUnmatchedClose(r, i))
                   ELSE AnalyzeScan(s, i + 1, Pop(stack).rest,
                            [r EXCEPT !.closing_brackets = @ + 1,
                                      !.stack_trace = Append(@, <<Pop(stack).top, i>>)])
         ELSE AnalyzeScan(s, i + 1, stack, r)

\* only the innermost unmatched open reported
ReportUnmatchedOpen_last(r, stack) ==
    IF stack # <<>>
    THEN [r EXCEPT !.valid = FALSE,
                   !.issues = Append(@, IssueUnmatchedOpen(<<stack[Len(stack)]>>))]
    ELSE r

\* "Check for unmatched opening brackets"
ReportUnmatchedOpen(r, stack) ==
    IF stack # <<>>
    THEN [r EXCEPT !.valid = FALSE,
                   !.issues = Append(@, IssueUnmatchedOpen(stack))]
    ELSE r

analyze_structure(structure) ==
    LET r0 == [valid |-> TRUE, length |-> Len(structure), dots |-> 0,
               opening_brackets |-> 0, closing_brackets |-> 0,
               issues |-> <<>>, stack_trace |-> <<>>]
        invalid_chars == Range(structure) \ {".", "(", ")"}
        r1 == IF invalid_chars # {}
              THEN [r0 EXCEPT !.valid = FALSE,
                              !.issues = Append(@, IssueInvalidChars(invalid_chars))]
              ELSE r0
        scanned == AnalyzeScan(structure, 0, <<>>, r1)
        r2 == scanned.result
        r3 == ReportUnmatchedOpen(r2, scanned.stack)
    IN  IF r3.opening_brackets # r3.closing_brackets
        THEN [r3 EXCEPT !.valid = FALSE,
                        !.issues = Append(@, IssueUnbalanced(r3.opening_brackets,
                                                             r3.closing_brackets))]
        ELSE r3

\* ------------------------------------------- example.analyze_rna_structure
\* "if gap_length <= 3"
BulgeMaxGap == 3

\* What analyze_rna_structure returns for an empty string: {}.
EmptyFeatures ==
    [keys |-> FALSE, total_length |-> 0, paired_bases |-> 0, unpaired_bases |-> 0,
     hairpin_loops |-> 0, internal_loops |-> 0, bulges |-> 0, stems |-> 0,
     multiloops |-> 0, external_loops |-> 0]

\* structure_string.count(ch)
\* the last character not counted
CountChar_short(s, ch) == Cardinality({k \in 1..(Len(s) - 1) : s[k] = ch})

CountChar(s, ch) == Cardinality({k \in 1..Len(s) : s[k] = ch})

\* structure_string.find(ch): the first position of ch, -1 when there is none
find(s, ch) ==
    IF \E k \in 1..Len(s) : s[k] = ch
    THEN (CHOOSE k \in 1..Len(s) : s[k] = ch /\ \A m \in 1..(k - 1) : s[m] # ch) - 1
    ELSE -1

\* structure_string.rfind(ch): the last position of ch, -1 when there is none
rfind(s, ch) ==
    IF \E k \in 1..Len(s) : s[k] = ch
    THEN (CHOOSE k \in 1..Len(s) : s[k] = ch /\ \A m \in (k + 1)..Len(s) : s[m] # ch) - 1
    ELSE -1

\* "Find matching base pairs"
RECURSIVE FeaturePairScan(_, _, _, _)
FeaturePairScan(s, i, stack, pairs) ==
    IF i >= Len(s) THEN pairs
    ELSE LET char == s[i + 1] IN
         IF char = "(" THEN FeaturePairScan(s, i + 1, Append(stack, i), pairs)
         ELSE IF char = ")" /\ stack # <<>>
              THEN FeaturePairScan(s, i + 1, SubSeq(stack, 1, Len(stack) - 1),
                                   Append(pairs, <<stack[Len(stack)], i>>))
         ELSE FeaturePairScan(s, i + 1, stack, pairs)

\* the test for pairs met from the inside out
ExtendsStem_outward(prev_pair, curr_pair) ==
    /\ curr_pair[1] = prev_pair[1] - 1
    /\ curr_pair[2] = prev_pair[2] + 1

\* "Check if pairs are consecutive (forming a stem)"
ExtendsStem(prev_pair, curr_pair) ==
    /\ curr_pair[1] = prev_pair[1] + 1
    /\ curr_pair[2] = prev_pair[2] - 1

\* The loop "for i in range(1, len(pairs))" from i on, and the append after it.
RECURSIVE GroupStems(_, _, _, _)
GroupStems(pairs, i, stems, current_stem) ==
    IF i >= Len(pairs) THEN Append(stems, current_stem)
    ELSE IF ExtendsStem(pairs[i], pairs[i + 1])
         THEN GroupStems(pairs, i + 1, stems, Append(current_stem, pairs[i + 1]))
         ELSE GroupStems(pairs, i + 1, Append(stems, current_stem), <<pairs[i + 1]>>)

\* The stems list of a non-empty pair list.
StemsOf(pairs) == GroupStems(pairs, 1, <<>>, <<pairs[1]>>)

\* the test for an empty region left out
LoopKind_empty_hairpin(s, stem) ==
    LET innermost == stem[Len(stem)]
        loop_start == innermost[1] + 1
        loop_end == innermost[2] - 1
    IN  IF \A k \in loop_start..loop_end : s[k + 1] \notin {"(", ")"}
        THEN "hairpin" ELSE "internal"

\* What the loop under "Analyze loops" adds for a stem: "hairpin",
\* "internal" or "none".
LoopKind(s, stem) ==
    LET innermost == stem[Len(stem)]
        loop_start == innermost[1] + 1
        loop_end == innermost[2] - 1
    IN  IF loop_start <= loop_end
        THEN IF \A k \in loop_start..loop_end : s[k + 1] \notin {"(", ")"}
             THEN "hairpin" ELSE "internal"
        ELSE "none"

\* the gap test without the boundary
GapKind_below(current_stem, next_stem) ==
    LET gap_start == current_stem[Len(current_stem)][1] + 1
        gap_end == next_stem[1][1] - 1
        gap_length == gap_end - gap_start + 1
    IN  IF gap_start <= gap_end
        THEN IF gap_length < BulgeMaxGap THEN "bulge" ELSE "internal"
        ELSE "none"

\* What the loop over adjacent stems adds for two of them: "bulge",
\* "internal" or "none".
GapKind(current_stem, next_stem) ==
    LET gap_start == current_stem[Len(current_stem)][1] + 1
        gap_end == next_stem[1][1] - 1
        gap_length == gap_end - gap_start + 1
    IN  IF gap_start <= gap_end
        THEN IF gap_length <= BulgeMaxGap THEN "bulge" ELSE "internal"
        ELSE "none"

\* both ends required to be free
ExternalLoops_and(s) ==
    LET first_pair == find(s, "(")
        last_pair == rfind(s, ")")
    IN  IF first_pair # -1 /\ last_pair # -1
        THEN IF first_pair > 0 /\ last_pair < Len(s) - 1 THEN 1 ELSE 0
        ELSE 1

\* "Count external loop regions"
ExternalLoops(s) ==
    LET first_pair == find(s, "(")
        last_pair == rfind(s, ")")
    IN  IF first_pair # -1 /\ last_pair # -1
        THEN IF first_pair > 0 \/ last_pair < Len(s) - 1 THEN 1 ELSE 0
        ELSE 1

\* one multiloop for a pair around two pairs side by side
Multiloops_branching(s) ==
    IF \E i, j, k, l \in 0..(Len(s) - 1) :
          /\ i < j /\ j < k /\ k < l
          /\ s[i + 1] = "(" /\ s[j + 1] = ")" /\ s[k + 1] = "(" /\ s[l + 1] = ")"
          /\ \E a \in 0..i, b \in l..(Len(s) - 1) :
                a < i /\ l < b /\ s[a + 1] = "(" /\ s[b + 1] = ")"
    THEN 1 ELSE 0

\* 'multiloops': 0, never assigned again
Multiloops(s) == 0

\* The report analyze_rna_structure builds after its early return.
FeaturesOf(structure_string) ==
    LET pairs == FeaturePairScan(structure_string, 0, <<>>, <<>>)
        stems == IF pairs # <<>> THEN StemsOf(pairs) ELSE <<>>
        hairpins == Cardinality({k \in 1..Len(stems) :
                                    LoopKind(structure_string, stems[k]) = "hairpin"})
        loops == Cardinality({k \in 1..Len(stems) :
                                 LoopKind(structure_string, stems[k]) = "internal"})
        bulge_gaps == Cardinality({k \in 1..(Len(stems) - 1) :
                                      GapKind(stems[k], stems[k + 1]) = "bulge"})
        loop_gaps == Cardinality({k \in 1..(Len(stems) - 1) :
                                     GapKind(stems[k], stems[k + 1]) = "internal"})
    IN  [keys |-> TRUE,
         total_length |-> Len(structure_string),
         paired_bases |-> CountChar(structure_string, "(")
                          + CountChar(structure_string, ")"),
         unpaired_bases |-> CountChar(structure_string, "."),
         hairpin_loops |-> hairpins,
         internal_loops |-> loops + loop_gaps,
         bulges |-> bulge_gaps,
         stems |-> Len(stems),
         multiloops |-> Multiloops(structure_string),
         external_loops |-> ExternalLoops(structure_string)]

\* the early return for an empty string left out
analyze_rna_structure_no_guard(structure_string) == FeaturesOf(structure_string)

analyze_rna_structure(structure_string) ==
    IF structure_string = <<>> THEN EmptyFeatures
    ELSE FeaturesOf(structure_string)

\* --------------------------------------- RNADesigner.get_structure_info
NoInfo ==
    [status |-> "none", sequence |-> <<>>, structure |-> <<>>, length |-> 0,
     gc_num |-> 0, gc_den |-> 1, paired_positions |-> 0]

\* The dict get_structure_info returns, gc_content as the fraction
\* gc_num / gc_den; the division raises ZeroDivisionError for a sequence of
\* length 0 and the call returns nothing.
get_structure_info(structure, seq) ==
    IF Len(seq) = 0
    THEN [NoInfo EXCEPT !.status = "ZeroDivisionError"]
    ELSE [status |-> "returned",
          sequence |-> seq,
          structure |-> structure,
          length |-> Len(seq),
          gc_num |-> CountChar(seq, "G") + CountChar(seq, "C"),
          gc_den |-> Len(seq),
          paired_positions |-> CountChar(seq, "(")]

\* ---------------------------------------------------------------- state
\* ----------------------------------- example.generate_dot_bracket_from_pairs
\* The loop "for i, j in base_pairs" from the k-th pair on.
RECURSIVE WritePairs(_, _, _, _)
WritePairs(structure, base_pairs, k, length) ==
    IF k > Len(base_pairs) THEN structure
    ELSE LET idx_i == base_pairs[k][1] - 1
             idx_j == base_pairs[k][2] - 1
         IN  IF 0 <= idx_i /\ idx_i < length /\ 0 <= idx_j /\ idx_j < length
             THEN WritePairs([[structure EXCEPT ![idx_i + 1] = "("]
                                 EXCEPT ![idx_j + 1] = ")"],
                             base_pairs, k + 1, length)
             ELSE WritePairs(structure, base_pairs, k + 1, length)

\* the pairs taken as 0-based
generate_dot_bracket_from_pairs_zero_based(base_pairs, length) ==
    WritePairs([n \in 1..length |-> "."],
               [k \in 1..Len(base_pairs) |->
                   <<base_pairs[k][1] + 1, base_pairs[k][2] + 1>>],
               1, length)

generate_dot_bracket_from_pairs(base_pairs, length) ==
    WritePairs([n \in 1..length |-> "."], base_pairs, 1, length)

VARIABLES
    base_pairs,         \* the pair list given to generate_dot_bracket_from_pairs
    length,             \* the length given with it
    built,              \* the notation it returned
    structure_pattern,  \* the notation both calls are given
    pc,                 \* per call: where the call is
    via,                \* per call: "direct" (RNADesigner(...)) or "wrapper"
    sequence_length,    \* per call: params.sequence_length
    error,              \* per call: the exception that reached the caller
    printed,            \* per call: the exception the wrapper printed
    result,             \* per call: what the caller got back
    sequence,           \* per call: the list being filled
    paired_positions,   \* per call: the pairs of the first pass
    idx,                \* per call: position of the running pass
    pair_class,         \* per call: outcome of random.random() < 0.7
    writes,             \* per call: history of the assignments to sequence
    draws_made,         \* per call: history, draws taken by this call
    rng_start,          \* per call: history, rngpos when the design began
    stream,             \* random module: the seeded generator's output so far
    rngpos,             \* random module: draws consumed since seeding
    analysis,           \* analyze_structure's result for structure_pattern
    info,               \* per call: what get_structure_info did
    features            \* analyze_rna_structure's result for structure_pattern

vars == <<structure_pattern, pc, via, sequence_length, error, printed, result,
          sequence, paired_positions, idx, pair_class, writes, draws_made,
          rng_start, stream, rngpos, analysis, info, features,
          base_pairs, length, built>>

Unset == [kind |-> "unset", str |-> <<>>]

None == [kind |-> "None", str |-> <<>>]

Str(s) == [kind |-> "str", str |-> s]

NotAnalyzed == [valid |-> FALSE, length |-> -1, dots |-> 0, opening_brackets |-> 0,
                closing_brackets |-> 0, issues |-> <<>>, stack_trace |-> <<>>]

\* analyze_rna_structure not called yet
NotFeatures == [EmptyFeatures EXCEPT !.total_length = -1]

\* Nothing called yet.
InitCalls ==
    /\ pc = [c \in Calls |-> "new"]
    /\ via = [c \in Calls |-> "direct"]
    /\ sequence_length = [c \in Calls |-> 0]
    /\ error = [c \in Calls |-> NoError]
    /\ printed = [c \in Calls |-> NoError]
    /\ result = [c \in Calls |-> Unset]
    /\ sequence = [c \in Calls |-> <<>>]
    /\ paired_positions = [c \in Calls |-> <<>>]
    /\ idx = [c \in Calls |-> 0]
    /\ pair_class = [c \in Calls |-> "none"]
    /\ writes = [c \in Calls |-> <<>>]
    /\ draws_made = [c \in Calls |-> 0]
    /\ rng_start = [c \in Calls |-> 0]
    /\ stream = <<>>
    /\ rngpos = 0
    /\ analysis = NotAnalyzed
    /\ info = [c \in Calls |-> NoInfo]
    /\ features = NotFeatures

\* generate_dot_bracket_from_pairs not called
NotBuilt == <<"?">>

InitNoPairs ==
    /\ base_pairs = <<>>
    /\ length = 0
    /\ built = NotBuilt

Init ==
    /\ structure_pattern \in Strings
    /\ InitCalls
    /\ InitNoPairs

\* The analyzers alone, on longer strings.
InitAnalyze ==
    /\ structure_pattern \in AnalyzeStrings
    /\ InitCalls
    /\ InitNoPairs

\* A notation built from a pair list and then scanned.
InitPairs ==
    /\ structure_pattern = <<>>
    /\ InitCalls
    /\ length \in 0..MaxBuildLen
    /\ base_pairs \in PairLists(length)
    /\ built = NotBuilt

\* ---------------------------------------------------------------- actions
\* The draws a design of s takes: two for each pair, one for each '.'.
DrawsNeeded(s) ==
    2 * Len(identify_paired_positions(s)) + Cardinality({i \in 1..Len(s) : s[i] = "."})

Designing(c) == pc[c] \in {"pairs", "pairs2", "unpaired"}

\* The draws call c has still to take.
DrawsLeft(c) ==
    CASE pc[c] = "pairs" -> 2 * (Len(paired_positions[c]) - idx[c])
                            + Cardinality({i \in 1..Len(structure_pattern) :
                                              structure_pattern[i] = "."})
      [] pc[c] = "pairs2" -> 2 * (Len(paired_positions[c]) - idx[c]) - 1
                             + Cardinality({i \in 1..Len(structure_pattern) :
                                               structure_pattern[i] = "."})
      [] pc[c] = "unpaired" -> Cardinality({i \in (idx[c] + 1)..Len(structure_pattern) :
                                               structure_pattern[i] = "."})
      [] OTHER -> 0

\* One call of random.random() or random.choice(): the generator hands out
\* the next value of its stream.  The stream of a seeded generator is fixed,
\* so a value already handed out after this seed is handed out again.
RandomDraw(c, d) ==
    /\ d \in 0..(Resolution - 1)
    /\ rngpos < Len(stream) => d = stream[rngpos + 1]
    /\ stream' = IF rngpos < Len(stream) THEN stream ELSE Append(stream, d)
    /\ rngpos' = rngpos + 1
    /\ draws_made' = [draws_made EXCEPT ![c] = @ + 1]

\* random.seed(s) with the seed of the run, between calls.
Reseed ==
    /\ \A c \in Calls : ~Designing(c)
    /\ rngpos > 0
    /\ rngpos' = 0
    /\ UNCHANGED <<base_pairs, length, built, structure_pattern, pc, via, sequence_length, error, printed,
                   result, sequence, paired_positions, idx, pair_class, writes,
                   draws_made, rng_start, stream, analysis, info, features>>

\* RNADesigner(RNAStructureParams(n, structure_pattern)), called directly
\* (v = "direct", any n) or by generate_sequence_from_dot_bracket
\* (v = "wrapper", n = len), which catches the exception, prints it and
\* returns None.  modes and lengths are the v and n the caller may use.
Construct(c, modes, lengths) ==
    /\ pc[c] = "new"
    /\ \E v \in modes, n \in lengths :
        /\ v = "wrapper" => n = Len(structure_pattern)
        /\ via' = [via EXCEPT ![c] = v]
        /\ sequence_length' = [sequence_length EXCEPT ![c] = n]
        /\ LET e == validate_params(structure_pattern, n) IN
            IF e = NoError
            THEN /\ pc' = [pc EXCEPT ![c] = "ready"]
                 /\ UNCHANGED <<error, printed, result>>
            ELSE IF v = "direct"
            THEN /\ pc' = [pc EXCEPT ![c] = "raised"]
                 /\ error' = [error EXCEPT ![c] = e]
                 /\ UNCHANGED <<printed, result>>
            ELSE /\ pc' = [pc EXCEPT ![c] = "none"]
                 /\ printed' = [printed EXCEPT ![c] = e]
                 /\ result' = [result EXCEPT ![c] = None]
                 /\ UNCHANGED error
    /\ UNCHANGED <<base_pairs, length, built, structure_pattern, sequence, paired_positions, idx, pair_class,
                   writes, draws_made, rng_start, stream, rngpos, analysis, info, features>>

\* design_structure up to the end of its first pass.
DesignStart(c) ==
    /\ pc[c] = "ready"
    /\ rngpos + DrawsLeft(CHOOSE d \in Calls : d # c) + DrawsNeeded(structure_pattern)
          <= MaxStream
    /\ sequence' = [sequence EXCEPT ![c] = [i \in 1..sequence_length[c] |-> "N"]]
    /\ paired_positions' = [paired_positions EXCEPT
                               ![c] = identify_paired_positions(structure_pattern)]
    /\ idx' = [idx EXCEPT ![c] = 0]
    /\ pc' = [pc EXCEPT ![c] =
                 IF identify_paired_positions(structure_pattern) = <<>>
                 THEN "unpaired" ELSE "pairs"]
    /\ rng_start' = [rng_start EXCEPT ![c] = rngpos]
    /\ UNCHANGED <<base_pairs, length, built, structure_pattern, via, sequence_length, error, printed, result,
                   pair_class, writes, draws_made, stream, rngpos, analysis, info, features>>

\* the class drawn from a source of its own that the seed does not reach
SelectPairClass_unseeded(c) ==
    /\ pc[c] = "pairs"
    /\ \E cls \in {"GC", "AU"} : pair_class' = [pair_class EXCEPT ![c] = cls]
    /\ pc' = [pc EXCEPT ![c] = "pairs2"]
    /\ UNCHANGED <<base_pairs, length, built, structure_pattern, via, sequence_length, error, printed, result,
                   sequence, paired_positions, idx, writes, rng_start, analysis, info, features,
                   draws_made, stream, rngpos>>

\* _select_base_pair, first half: random.random() < 0.7
SelectPairClass(c) ==
    /\ pc[c] = "pairs"
    /\ \E d \in 0..(Resolution - 1) :
        /\ RandomDraw(c, d)
        /\ pair_class' = [pair_class EXCEPT ![c] = IF IsGC(d) THEN "GC" ELSE "AU"]
    /\ pc' = [pc EXCEPT ![c] = "pairs2"]
    /\ UNCHANGED <<base_pairs, length, built, structure_pattern, via, sequence_length, error, printed, result,
                   sequence, paired_positions, idx, writes, rng_start, analysis, info, features>>

\* the 5' base written to both positions
WritePair_same(seq, left_pos, right_pos, pair) ==
    [seq EXCEPT ![left_pos + 1] = pair[1], ![right_pos + 1] = pair[1]]

\* The two assignments of the second pass.
WritePair(seq, left_pos, right_pos, pair) ==
    [seq EXCEPT ![left_pos + 1] = pair[1], ![right_pos + 1] = pair[2]]

\* _select_base_pair, second half (random.choice), and the two assignments
\* of the second pass for the pair at idx.
FillPair(c) ==
    /\ pc[c] = "pairs2"
    /\ \E d \in 0..(Resolution - 1) :
        /\ RandomDraw(c, d)
        /\ LET pair == choice(IF pair_class[c] = "GC" THEN GC_CHOICES ELSE AU_CHOICES, d)
               left_pos == paired_positions[c][idx[c] + 1][1]
               right_pos == paired_positions[c][idx[c] + 1][2]
           IN /\ sequence' = [sequence EXCEPT
                                 ![c] = WritePair(@, left_pos, right_pos, pair)]
              /\ writes' = [writes EXCEPT
                               ![c] = @ \o << <<left_pos, "pair">>, <<right_pos, "pair">> >>]
    /\ IF idx[c] + 1 >= Len(paired_positions[c])
       THEN /\ pc' = [pc EXCEPT ![c] = "unpaired"]
            /\ idx' = [idx EXCEPT ![c] = 0]
       ELSE /\ pc' = [pc EXCEPT ![c] = "pairs"]
            /\ idx' = [idx EXCEPT ![c] = @ + 1]
    /\ UNCHANGED <<base_pairs, length, built, structure_pattern, via, sequence_length, error, printed, result,
                   paired_positions, pair_class, rng_start, analysis, info, features>>

\* every position but a ')' taken for unpaired
IsUnpaired_not_close(char) == char # ")"

\* The test of the third pass: the position is filled there.
IsUnpaired(char) == char = "."

\* The positions from i on that the third pass fills.
UnpairedFrom(s, i) == {j \in i..(Len(s) - 1) : IsUnpaired(s[j + 1])}

Min(S) == CHOOSE x \in S : \A y \in S : x <= y

\* The third pass at its next position to fill.
FillUnpaired(c) ==
    /\ pc[c] = "unpaired"
    /\ UnpairedFrom(structure_pattern, idx[c]) # {}
    /\ LET i == Min(UnpairedFrom(structure_pattern, idx[c])) IN
        /\ \E d \in 0..(Resolution - 1) :
            /\ RandomDraw(c, d)
            /\ sequence' = [sequence EXCEPT ![c][i + 1] = choice(UNPAIRED_BASES, d)]
        /\ writes' = [writes EXCEPT ![c] = Append(@, <<i, "unpaired">>)]
        /\ idx' = [idx EXCEPT ![c] = i + 1]
    /\ UNCHANGED <<base_pairs, length, built, structure_pattern, pc, via, sequence_length, error, printed, result,
                   paired_positions, pair_class, rng_start, analysis, info, features>>

\* return ''.join(sequence)
Return(c) ==
    /\ pc[c] = "unpaired"
    /\ UnpairedFrom(structure_pattern, idx[c]) = {}
    /\ pc' = [pc EXCEPT ![c] = "done"]
    /\ result' = [result EXCEPT ![c] = Str(sequence[c])]
    /\ UNCHANGED <<base_pairs, length, built, structure_pattern, via, sequence_length, error, printed, sequence,
                   paired_positions, idx, pair_class, writes, draws_made, rng_start,
                   stream, rngpos, analysis, info, features>>

\* analyze_structure(structure_pattern)
Analyze ==
    /\ analysis = NotAnalyzed
    /\ analysis' = analyze_structure(structure_pattern)
    /\ UNCHANGED <<base_pairs, length, built, structure_pattern, pc, via, sequence_length, error, printed, result,
                   sequence, paired_positions, idx, pair_class, writes, draws_made,
                   rng_start, stream, rngpos, info, features>>

\* analyze_rna_structure(structure_pattern)
AnalyzeFeatures ==
    /\ features = NotFeatures
    /\ features' = analyze_rna_structure(structure_pattern)
    /\ UNCHANGED <<base_pairs, length, built, structure_pattern, pc, via, sequence_length, error, printed, result,
                   sequence, paired_positions, idx, pair_class, writes, draws_made,
                   rng_start, stream, rngpos, analysis, info>>

\* designer.get_structure_info(sequence) on the sequence the design returned
GetStructureInfo(c) ==
    /\ pc[c] = "done"
    /\ info[c] = NoInfo
    /\ info' = [info EXCEPT ![c] = get_structure_info(structure_pattern, result[c].str)]
    /\ UNCHANGED <<base_pairs, length, built, structure_pattern, pc, via, sequence_length, error, printed, result,
                   sequence, paired_positions, idx, pair_class, writes, draws_made,
                   rng_start, stream, rngpos, analysis, features>>

\* A design begun while no other call is designing: the calls of a
\* single-threaded caller.
DesignStartAlone(c) ==
    /\ \A d \in Calls \ {c} : ~Designing(d)
    /\ DesignStart(c)

\* One caller: call 1, made either way, with any declared length.
Next ==
    \/ Analyze
    \/ Construct(1, {"direct", "wrapper"}, 0..MaxLen)
    \/ DesignStartAlone(1)
    \/ SelectPairClass(1)
    \/ FillPair(1)
    \/ FillUnpaired(1)
    \/ Return(1)
    \/ GetStructureInfo(1)

Spec == Init /\ [][Next]_vars

\* The two analyzers applied to a string.
NextAnalyze ==
    \/ Analyze
    \/ AnalyzeFeatures

SpecAnalyze == InitAnalyze /\ [][NextAnalyze]_vars

Build ==
    /\ built = NotBuilt
    /\ built' = generate_dot_bracket_from_pairs(base_pairs, length)
    /\ UNCHANGED <<base_pairs, length, structure_pattern, pc, via, sequence_length,
                   error, printed, result, sequence, paired_positions, idx,
                   pair_class, writes, draws_made, rng_start, stream, rngpos,
                   analysis, info, features>>

AnalyzeBuilt ==
    /\ built # NotBuilt
    /\ analysis = NotAnalyzed
    /\ analysis' = analyze_structure(built)
    /\ UNCHANGED <<base_pairs, length, built, structure_pattern, pc, via,
                   sequence_length, error, printed, result, sequence,
                   paired_positions, idx, pair_class, writes, draws_made,
                   rng_start, stream, rngpos, info, features>>

\* generate_dot_bracket_from_pairs, then the bracket-matching scan of what
\* it returned.
NextPairs ==
    \/ Build
    \/ AnalyzeBuilt

SpecPairs == InitPairs /\ [][NextPairs]_vars

\* Two calls on the same notation, one after the other, of a caller that
\* may seed the random module between them.
NextSeq ==
    \/ Reseed
    \/ \E c \in Calls : Construct(c, {"direct"}, {Len(structure_pattern)})
    \/ \E c \in Calls : DesignStartAlone(c)
    \/ \E c \in Calls : SelectPairClass(c)
    \/ \E c \in Calls : FillPair(c)
    \/ \E c \in Calls : FillUnpaired(c)
    \/ \E c \in Calls : Return(c)

SpecSeq == Init /\ [][NextSeq]_vars

\* Two calls on the same notation from two threads, interleaved at the
\* calls of the random module.
NextConc ==
    \/ Reseed
    \/ \E c \in Calls : Construct(c, {"direct"}, {Len(structure_pattern)})
    \/ \E c \in Calls : DesignStart(c)
    \/ \E c \in Calls : SelectPairClass(c)
    \/ \E c \in Calls : FillPair(c)
    \/ \E c \in Calls : FillUnpaired(c)
    \/ \E c \in Calls : Return(c)

SpecConc == Init /\ [][NextConc]_vars

\* ------------------------------------------------------- notions of the claims
Notation == {".", "(", ")"}

\* The number of ch among the first n characters of s.
Count(s, ch, n) == Cardinality({k \in 1..n : s[k] = ch})

\* A balanced dot-bracket notation.
Balanced(s) ==
    /\ Range(s) \subseteq Notation
    /\ \A n \in 0..Len(s) : Count(s, "(", n) >= Count(s, ")", n)
    /\ Count(s, "(", Len(s)) = Count(s, ")", Len(s))

\* Positions i < j of s hold a '(' and the ')' that closes it.
IsPair(s, i, j) ==
    /\ 0 <= i /\ i < j /\ j < Len(s)
    /\ s[i + 1] = "(" /\ s[j + 1] = ")"
    /\ Balanced(SubSeq(s, i + 2, j))

\* Position i holds a character outside the notation, or a ')' with no
\* '(' before it left to close.
Offends(s, i) ==
    \/ s[i + 1] \notin Notation
    \/ s[i + 1] = ")" /\ Count(s, "(", i) <= Count(s, ")", i)

\* The first offending position of s, -1 when there is none.
FirstOffender(s) ==
    IF \E i \in 0..(Len(s) - 1) : Offends(s, i)
    THEN Min({i \in 0..(Len(s) - 1) : Offends(s, i)})
    ELSE -1

RECURSIVE Ascending(_)
Ascending(S) == IF S = {} THEN <<>> ELSE <<Min(S)>> \o Ascending(S \ {Min(S)})

\* The positions of the '(' of s that no ')' closes, in ascending order.
UnclosedOpens(s) ==
    Ascending({i \in 0..(Len(s) - 1) :
                  s[i + 1] = "(" /\ ~\E j \in 0..(Len(s) - 1) : IsPair(s, i, j)})

\* i < j in every pair, no position in two pairs, no two pairs crossing.
WellNested(pairs) ==
    /\ \A k \in 1..Len(pairs) : pairs[k][1] < pairs[k][2]
    /\ \A k, m \in 1..Len(pairs) :
          k # m => {pairs[k][1], pairs[k][2]} \cap {pairs[m][1], pairs[m][2]} = {}
    /\ \A k, m \in 1..Len(pairs) :
          k # m =>
             LET a == pairs[k][1]  b == pairs[k][2]
                 c == pairs[m][1]  d == pairs[m][2]
             IN  \/ b < c
                 \/ d < a
                 \/ a < c /\ d < b
                 \/ c < a /\ b < d

\* The design of call c has run its first pass.
Scanned(c) == pc[c] \in {"pairs", "pairs2", "unpaired", "done"}

\* The constructor of call c has failed.
Rejected(c) == pc[c] \in {"raised", "none"}

\* The exception the validator raised in call c.
Raised(c) == IF via[c] = "wrapper" THEN printed[c] ELSE error[c]

\* ------------------------------------------------------------------ claims
\* C1: for every valid notation, the pair list of the stack scan (the
\* designer's paired_positions and the diagnostic validator's stack_trace)
\* has i < j in every pair, no position in two pairs and no crossing pairs.
C1_PairsWellNested ==
    /\ Scanned(1) => WellNested(paired_positions[1])
    /\ analysis # NotAnalyzed /\ analysis.valid => WellNested(analysis.stack_trace)

C1_Witness ==
    /\ pc[1] = "done"
    /\ Len(paired_positions[1]) = 2
    /\ paired_positions[1][1][1] > paired_positions[1][2][1]
    /\ analysis.valid
    /\ Len(analysis.stack_trace) = 2

\* C2: with the declared length that of the string, the validator accepts
\* the string exactly when it is a balanced dot-bracket notation; the empty
\* string is accepted and its pair list is empty.
C2_AcceptsExactlyBalanced ==
    /\ pc[1] # "new" /\ sequence_length[1] = Len(structure_pattern)
          => (~Rejected(1) <=> Balanced(structure_pattern))
    /\ Scanned(1) /\ structure_pattern = <<>> => paired_positions[1] = <<>>

C2_Witness ==
    /\ Rejected(1)
    /\ sequence_length[1] = Len(structure_pattern)
    /\ Range(structure_pattern) \subseteq Notation
    /\ Count(structure_pattern, "(", Len(structure_pattern))
          = Count(structure_pattern, ")", Len(structure_pattern))
    /\ Len(structure_pattern) > 0

\* C3 as stated: the error of a failed scan identifies the first offending
\* character, so no other string with another first offender, or none,
\* raises the same error.
C3_ErrorIdentifiesOffender ==
    Rejected(1) /\ sequence_length[1] = Len(structure_pattern)
                /\ FirstOffender(structure_pattern) >= 0
       => \A t \in Strings :
             validate_params(t, Len(t)) = Raised(1)
                => FirstOffender(t) = FirstOffender(structure_pattern)

\* C3 as amended: the first offending character decides the error: a ')'
\* met with an empty stack raises the unmatched-brackets error, a character
\* outside the notation raises the invalid-character error carrying that
\* character; neither carries the position.
C3_FirstOffenderDecides ==
    Rejected(1) /\ sequence_length[1] = Len(structure_pattern)
                /\ FirstOffender(structure_pattern) >= 0
       => LET char == structure_pattern[FirstOffender(structure_pattern) + 1] IN
          Raised(1) = IF char = ")" THEN ErrUnmatched ELSE ErrInvalidChar(char)

C3_Witness ==
    /\ Rejected(1)
    /\ sequence_length[1] = Len(structure_pattern)
    /\ FirstOffender(structure_pattern) >= 1
    /\ structure_pattern[FirstOffender(structure_pattern) + 1] = ")"
    /\ \E k \in 1..Len(structure_pattern) : structure_pattern[k] = "x"
    /\ Raised(1) = ErrUnmatched

\* The scan of s meets no offending character and leaves opens unclosed.
EndsWithOpens(s) == FirstOffender(s) = -1 /\ UnclosedOpens(s) # <<>>

\* C4 as stated, for the designer's validator: the error raised at the end
\* of the scan gives the positions left on the stack, so no string with
\* other unclosed opens raises the same error.
C4_ErrorGivesOpenPositions ==
    Rejected(1) /\ sequence_length[1] = Len(structure_pattern)
                /\ EndsWithOpens(structure_pattern)
       => \A t \in Strings :
             validate_params(t, Len(t)) = Raised(1)
                => UnclosedOpens(t) = UnclosedOpens(structure_pattern)

\* C4 as amended: when the scan ends with opens on the stack, the
\* diagnostic validator flags the string invalid and reports an
\* unmatched-opening issue whose positions are the '(' never closed, in
\* ascending order; the designer's validator raises the unmatched-brackets
\* error, which carries no positions.
C4_UnmatchedOpenReported ==
    EndsWithOpens(structure_pattern) =>
       /\ analysis # NotAnalyzed =>
             /\ ~analysis.valid
             /\ \E k \in 1..Len(analysis.issues) :
                   analysis.issues[k]
                      = IssueUnmatchedOpen(UnclosedOpens(structure_pattern))
       /\ Rejected(1) /\ sequence_length[1] = Len(structure_pattern)
             => Raised(1) = ErrUnmatched

C4_Witness ==
    /\ EndsWithOpens(structure_pattern)
    /\ Len(UnclosedOpens(structure_pattern)) = 2
    /\ Len(analysis.stack_trace) = 1
    /\ Rejected(1)
    /\ Raised(1) = ErrUnmatched

Bases == {"A", "C", "G", "U"}

\* C5: the designed sequence has the length of the notation, and the two
\* positions of every pair of the notation hold one of the complementary
\* pairs (G,C), (C,G), (A,U), (U,A).
C5_PairsComplementary ==
    pc[1] = "done" =>
       /\ result[1].kind = "str"
       /\ Len(result[1].str) = Len(structure_pattern)
       /\ \A i, j \in 0..(Len(structure_pattern) - 1) :
             IsPair(structure_pattern, i, j)
                => <<result[1].str[i + 1], result[1].str[j + 1]>> \in BASE_PAIRS

C5_Witness ==
    /\ pc[1] = "done"
    /\ IsPair(structure_pattern, 0, 3)
    /\ IsPair(structure_pattern, 1, 2)
    /\ result[1].str[1] \in {"G", "C"}
    /\ result[1].str[2] \in {"A", "U"}

\* The positions written so far by call c.
Written(c) == {writes[c][k][1] : k \in 1..Len(writes[c])}

\* C6: in a design every position is written once: the pair pass writes
\* the paired positions, the later unpaired pass the unpaired ones, nothing
\* is written twice, a position holds the placeholder exactly until it is
\* written, and the result holds only A, C, G, U.
C6_WrittenExactlyOnce ==
    LET w == writes[1]
        s == structure_pattern
    IN  /\ \A k, m \in 1..Len(w) : k # m => w[k][1] # w[m][1]
        /\ \A k \in 1..Len(w) :
              /\ w[k][1] \in 0..(Len(s) - 1)
              /\ w[k][2] = "pair" => s[w[k][1] + 1] \in {"(", ")"}
              /\ w[k][2] = "unpaired" => s[w[k][1] + 1] = "."
        /\ \A k, m \in 1..Len(w) :
              k < m => ~(w[k][2] = "unpaired" /\ w[m][2] = "pair")
        /\ Scanned(1) =>
              \A i \in 0..(Len(s) - 1) :
                 IF i \in Written(1) THEN sequence[1][i + 1] \in Bases
                                     ELSE sequence[1][i + 1] = "N"
        /\ pc[1] \in {"unpaired", "done"} =>
              {i \in 0..(Len(s) - 1) : s[i + 1] \in {"(", ")"}} \subseteq Written(1)
        /\ pc[1] = "done" =>
              /\ Written(1) = 0..(Len(s) - 1)
              /\ Range(result[1].str) \subseteq Bases

C6_Witness ==
    /\ pc[1] = "done"
    /\ Len(writes[1]) = Len(structure_pattern)
    /\ \E k \in 1..Len(writes[1]) : writes[1][k][2] = "pair"
    /\ \E k \in 1..Len(writes[1]) : writes[1][k][2] = "unpaired"
    /\ structure_pattern[1] = "."

\* C7: a request whose declared length is not the length of the notation
\* fails with the length-mismatch error, whatever the notation, and by then
\* no draw has been taken and nothing of a sequence exists.
C7_LengthMismatchFirst ==
    pc[1] # "new" /\ sequence_length[1] # Len(structure_pattern) =>
       /\ pc[1] = "raised"
       /\ error[1] = ErrLength
       /\ draws_made[1] = 0 /\ rngpos = 0 /\ stream = <<>>
       /\ sequence[1] = <<>> /\ writes[1] = <<>> /\ result[1] = Unset

C7_Witness ==
    /\ pc[1] = "raised"
    /\ error[1] = ErrLength
    /\ ~Balanced(structure_pattern)
    /\ sequence_length[1] > Len(structure_pattern)

\* C8: designing from an invalid notation gives the caller the error the
\* validator reports for it, not another error, a null result or a
\* sequence.
C8_ValidatorErrorSurfaced ==
    via[1] = "wrapper" /\ pc[1] # "new" /\ ~Balanced(structure_pattern) =>
       /\ error[1] = validate_params(structure_pattern, Len(structure_pattern))
       /\ error[1] # NoError
       /\ result[1] = Unset

\* C9: two design calls on the same notation that start from the same
\* state of the seeded generator return the same sequence.
C9_SameSeedSameSequence ==
    pc[1] = "done" /\ pc[2] = "done" /\ rng_start[1] = rng_start[2]
       => result[1] = result[2]

C9_Witness ==
    /\ pc[1] = "done" /\ pc[2] = "done"
    /\ rng_start[1] = rng_start[2]
    /\ Len(paired_positions[1]) >= 1
    /\ Len(structure_pattern) >= 3
    /\ \E k \in 1..Len(stream) : stream[k] # stream[1]
    /\ result[1] = result[2]

\* The sequence a design of s returns when it alone takes the draws, in
\* order: two for each pair in the order of the pair list, then one for
\* each '.' from left to right.
DesignAlone(s, draws) ==
    LET pairs == identify_paired_positions(s)
        np == Len(pairs)
        PairOf(k) == choice(IF IsGC(draws[2 * k - 1]) THEN GC_CHOICES ELSE AU_CHOICES,
                            draws[2 * k])
    IN  [i \in 1..Len(s) |->
            IF \E k \in 1..np : pairs[k][1] = i - 1
            THEN PairOf(CHOOSE k \in 1..np : pairs[k][1] = i - 1)[1]
            ELSE IF \E k \in 1..np : pairs[k][2] = i - 1
            THEN PairOf(CHOOSE k \in 1..np : pairs[k][2] = i - 1)[2]
            ELSE choice(UNPAIRED_BASES, draws[2 * np + Count(s, ".", i)])]

\* C10: under interleaving each call returns the sequence it would return
\* alone from the state the generator had when the call began.
C10_CallsIndependent ==
    \A c \in Calls :
       pc[c] = "done" =>
          result[c] = Str(DesignAlone(structure_pattern,
                             SubSeq(stream, rng_start[c] + 1,
                                    rng_start[c] + DrawsNeeded(structure_pattern))))

\* ------------------------------------------------ notions of the analyzers
\* The number of ch at the positions a..b of s.
CountIn(s, ch, a, b) == Cardinality({k \in a..b : s[k + 1] = ch})

\* The ')' at position i of s has no '(' before it left to close, whatever
\* came before: every stretch ending at i holds more ')' than '('.
IsUnmatchedClose(s, i) ==
    /\ s[i + 1] = ")"
    /\ \A j \in 0..i : CountIn(s, ")", j, i) > CountIn(s, "(", j, i)

\* Positions i < j of s hold a '(' and the ')' that closes it, in a string
\* that may hold unmatched brackets and other characters elsewhere.
IsLoosePair(s, i, j) ==
    /\ 0 <= i /\ i < j /\ j < Len(s)
    /\ s[i + 1] = "(" /\ s[j + 1] = ")"
    /\ CountIn(s, "(", i + 1, j - 1) = CountIn(s, ")", i + 1, j - 1)
    /\ \A m \in (i + 1)..(j - 1) :
          CountIn(s, "(", i + 1, m) >= CountIn(s, ")", i + 1, m)

LoosePairs(s) ==
    {q \in (0..(Len(s) - 1)) \X (0..(Len(s) - 1)) : IsLoosePair(s, q[1], q[2])}

\* The '(' of s that no ')' closes, ascending.
LooseUnclosed(s) ==
    Ascending({i \in 0..(Len(s) - 1) :
                  s[i + 1] = "(" /\ ~\E j \in 0..(Len(s) - 1) : IsLoosePair(s, i, j)})

IsCloseIssue(x) == x.text = "Unmatched closing bracket at position"

\* C11: the diagnostic validator scans the whole string: it lists one
\* unmatched-close issue, with its position, for every ')' met with an
\* empty stack, in order; it goes on matching the later brackets; it lists
\* the opens left at the end and the invalid characters; and the result is
\* valid exactly when no issue is listed.
C11_DiagnosticReportsAll ==
    analysis # NotAnalyzed =>
       LET s == structure_pattern
           iss == analysis.issues
           closes == Ascending({i \in 0..(Len(s) - 1) : IsUnmatchedClose(s, i)})
           invalid == Range(s) \ Notation
       IN  /\ SelectSeq(iss, IsCloseIssue)
                 = [k \in 1..Len(closes) |-> IssueUnmatchedClose(closes[k])]
           /\ Range(analysis.stack_trace) = LoosePairs(s)
           /\ Len(analysis.stack_trace) = Cardinality(LoosePairs(s))
           /\ LooseUnclosed(s) # <<>>
                 <=> IssueUnmatchedOpen(LooseUnclosed(s)) \in Range(iss)
           /\ LooseUnclosed(s) = <<>>
                 => \A k \in 1..Len(iss) : iss[k].positions = <<>>
           /\ invalid # {} <=> IssueInvalidChars(invalid) \in Range(iss)
           /\ invalid = {} => \A k \in 1..Len(iss) : iss[k].chars = {}
           /\ analysis.valid <=> iss = <<>>

C11_Witness ==
    /\ analysis # NotAnalyzed
    /\ Len(SelectSeq(analysis.issues, IsCloseIssue)) = 2
    /\ Len(analysis.stack_trace) = 1
    /\ analysis.stack_trace[1][1] > analysis.issues[3].pos
    /\ IsCloseIssue(analysis.issues[3])
    /\ Len(LooseUnclosed(structure_pattern)) = 1
    /\ Range(structure_pattern) \ Notation # {}
    /\ Len(analysis.issues) >= 4

\* k '(' then m '.' then k ')'
IsHairpinOf(s, k, m) ==
    /\ Len(s) = 2 * k + m
    /\ \A n \in 1..Len(s) :
          s[n] = IF n <= k THEN "(" ELSE IF n <= k + m THEN "." ELSE ")"

\* C12: for k >= 1 nested pairs closing m >= 1 unpaired positions and
\* nothing else, analyze reports stems = 1, hairpin_loops = 1,
\* internal_loops = 0, bulges = 0, external_loops = 0, paired_bases = 2k
\* and unpaired_bases = m.
C12_SingleStemHairpin ==
    features # NotFeatures =>
       \A k, m \in 1..Len(structure_pattern) :
          IsHairpinOf(structure_pattern, k, m) =>
             /\ features.keys
             /\ features.stems = 1
             /\ features.hairpin_loops = 1
             /\ features.internal_loops = 0
             /\ features.bulges = 0
             /\ features.external_loops = 0
             /\ features.paired_bases = 2 * k
             /\ features.unpaired_bases = m

\* A valid notation with no pair: dots only.
IsPairless(s) == \A n \in 1..Len(s) : s[n] = "."

\* C13 as stated: for every valid notation with no pair, of any length,
\* length 0 included, analyze returns a report with stems = 0,
\* hairpin_loops = 0 and external_loops = 1.
C13_PairlessIsExternal ==
    features # NotFeatures /\ IsPairless(structure_pattern) =>
       /\ features.keys
       /\ features.stems = 0
       /\ features.hairpin_loops = 0
       /\ features.external_loops = 1

\* C13 as amended: the same for every length of at least 1; for the empty
\* string analyze returns an empty report, which holds no count at all.
C13_NonEmptyPairlessIsExternal ==
    features # NotFeatures /\ IsPairless(structure_pattern) =>
       IF Len(structure_pattern) = 0
       THEN features = EmptyFeatures
       ELSE /\ features.keys
            /\ features.stems = 0
            /\ features.hairpin_loops = 0
            /\ features.external_loops = 1

C13_Witness ==
    /\ features # NotFeatures
    /\ IsPairless(structure_pattern)
    /\ Len(structure_pattern) = 5
    /\ features.external_loops = 1

\* C14: the GC-content reported for a designed sequence is (count of G +
\* count of C) / length, lies between 0 and 1, and is 0 for a sequence of
\* length 0, for which the call returns instead of failing.
C14_GCContentDefined ==
    info[1] # NoInfo =>
       LET seq == result[1].str
           gc == CountIn(seq, "G", 0, Len(seq) - 1) + CountIn(seq, "C", 0, Len(seq) - 1)
       IN  /\ info[1].status = "returned"
           /\ 0 <= info[1].gc_num /\ info[1].gc_num <= info[1].gc_den
           /\ IF Len(seq) = 0
              THEN info[1].gc_num = 0
              ELSE info[1].gc_num * Len(seq) = gc * info[1].gc_den

\* The base pairs of a valid notation.
PairSet(s) ==
    {q \in (0..(Len(s) - 1)) \X (0..(Len(s) - 1)) : IsPair(s, q[1], q[2])}

\* C15: the structure info of a designed sequence reports 'length' equal to
\* the notation length, 'structure' equal to the notation and
\* 'paired_positions' equal to the number of base pairs of the notation.
C15_InfoCountsPairs ==
    info[1].status = "returned" =>
       /\ info[1].length = Len(structure_pattern)
       /\ info[1].structure = structure_pattern
       /\ info[1].paired_positions = Cardinality(PairSet(structure_pattern))

\* C16: each pair is filled by a two-step choice: the class is GC exactly
\* when the policy draw falls below the threshold, AU otherwise, and the
\* second draw picks one of the two pairs of the class, each on one half of
\* its range; each unpaired position is filled by a draw of its own, each
\* base on one quarter of its range, whatever the other draws were.
C16_TwoStepPairChoice ==
    pc[1] = "done" =>
       LET s == structure_pattern
           res == result[1].str
           pp == paired_positions[1]
           np == Len(pp)
           U(k) == stream[rng_start[1] + k]
       IN  /\ \A k \in 1..np :
                 LET placed == <<res[pp[k][1] + 1], res[pp[k][2] + 1]>>
                 IN  /\ placed \in BASE_PAIRS
                     /\ placed \in {<<"G", "C">>, <<"C", "G">>}
                           <=> 10 * U(2 * k - 1) < GCThresholdTenths * Resolution
                     /\ placed \in {<<"G", "C">>, <<"A", "U">>}
                           <=> 2 * U(2 * k) < Resolution
           /\ \A i \in 0..(Len(s) - 1) :
                 s[i + 1] = "." =>
                    LET d == U(2 * np + Count(s, ".", i + 1))
                    IN  res[i + 1] = IF 4 * d < Resolution THEN "A"
                                     ELSE IF 4 * d < 2 * Resolution THEN "C"
                                     ELSE IF 4 * d < 3 * Resolution THEN "G"
                                     ELSE "U"

C16_Witness ==
    /\ pc[1] = "done"
    /\ Len(paired_positions[1]) = 1
    /\ Len(structure_pattern) = 4
    /\ 10 * stream[rng_start[1] + 1] >= GCThresholdTenths * Resolution
    /\ result[1].str[paired_positions[1][1][1] + 1] = "U"
    /\ \E i \in 1..Len(structure_pattern) :
          structure_pattern[i] = "." /\ result[1].str[i] = "G"

\* The pairs that begin a maximal run of consecutively nested pairs.
RunStarts(s) == {q \in PairSet(s) : <<q[1] - 1, q[2] + 1>> \notin PairSet(s)}

\* C17: for every valid notation the stems count equals the number of
\* maximal runs of consecutively nested pairs; zero pairs give zero stems.
C17_StemsAreMaximalRuns ==
    features.keys /\ Balanced(structure_pattern) =>
       features.stems = Cardinality(RunStarts(structure_pattern))

\* The stem groups the analyzer forms for s.
AnalyzerStems(s) ==
    LET pairs == FeaturePairScan(s, 0, <<>>, <<>>)
    IN  IF pairs # <<>> THEN StemsOf(pairs) ELSE <<>>

\* The positions strictly between the two positions of the innermost pair
\* of a stem.
Region(stem) == (stem[Len(stem)][1] + 1)..(stem[Len(stem)][2] - 1)

BracketFree(s, R) == \A p \in R : s[p + 1] \notin {"(", ")"}

\* The positions between the end of the outer pair of stem k and the start
\* of the outer pair of stem k + 1.
OuterGap(stems, k) == (stems[k][1][2] + 1)..(stems[k + 1][1][1] - 1)

\* The positions after the start of the last pair of stem k and before the
\* start of the first pair of stem k + 1.
StartGap(stems, k) == (stems[k][Len(stems[k])][1] + 1)..(stems[k + 1][1][1] - 1)

\* C18 as stated: every stem adds one to hairpin_loops when the region
\* inside its innermost pair holds no bracket, the empty region included,
\* and one to internal_loops otherwise.
C18_EveryStemCounted ==
    features.keys =>
       LET s == structure_pattern
           st == AnalyzerStems(s)
           long == {k \in 1..(Len(st) - 1) : Cardinality(StartGap(st, k)) > 3}
       IN  /\ features.hairpin_loops
                 = Cardinality({k \in 1..Len(st) : BracketFree(s, Region(st[k]))})
           /\ features.internal_loops - Cardinality(long)
                 = Cardinality({k \in 1..Len(st) : ~BracketFree(s, Region(st[k]))})

\* C18 as amended: every stem group adds one to hairpin_loops when that
\* region is not empty and holds no bracket, one to internal_loops when it
\* holds a bracket, and nothing when it is empty.
C18_NonEmptyRegionCounted ==
    features.keys =>
       LET s == structure_pattern
           st == AnalyzerStems(s)
           long == {k \in 1..(Len(st) - 1) : Cardinality(StartGap(st, k)) > 3}
       IN  /\ features.hairpin_loops
                 = Cardinality({k \in 1..Len(st) :
                                   Region(st[k]) # {} /\ BracketFree(s, Region(st[k]))})
           /\ features.internal_loops - Cardinality(long)
                 = Cardinality({k \in 1..Len(st) : ~BracketFree(s, Region(st[k]))})

C18_Witness ==
    /\ features.keys
    /\ LET st == AnalyzerStems(structure_pattern)
       IN  /\ \E k \in 1..Len(st) : Region(st[k]) = {}
           /\ \E k \in 1..Len(st) :
                 Region(st[k]) # {} /\ BracketFree(structure_pattern, Region(st[k]))
           /\ \E k \in 1..Len(st) : ~BracketFree(structure_pattern, Region(st[k]))
    /\ features.hairpin_loops = 1
    /\ features.internal_loops = 1

Max(S) == CHOOSE x \in S : \A y \in S : x >= y

\* C20: for a valid notation with at least one pair external_loops is 1 if
\* the leftmost pair does not start at position 0 or the rightmost pair
\* does not end at the last position, and 0 otherwise; it is never greater
\* than 1.
C20_ExternalLoopAtAnEnd ==
    features # NotFeatures =>
       LET s == structure_pattern
           ps == PairSet(s)
       IN  /\ features.external_loops <= 1
           /\ features.keys /\ Balanced(s) /\ ps # {} =>
                 features.external_loops
                    = IF \/ Min({q[1] : q \in ps}) # 0
                         \/ Max({q[2] : q \in ps}) # Len(s) - 1
                      THEN 1 ELSE 0

C20_Witness ==
    /\ features.keys
    /\ Balanced(structure_pattern)
    /\ PairSet(structure_pattern) # {}
    /\ Min({q[1] : q \in PairSet(structure_pattern)}) = 0
    /\ Max({q[2] : q \in PairSet(structure_pattern)}) # Len(structure_pattern) - 1
    /\ features.external_loops = 1

\* C21 as stated: for every valid notation, the empty one included, analyze
\* reports total_length = length of the string, paired_bases = 2 x the
\* number of pairs and unpaired_bases = total_length - paired_bases.
C21_CountsAddUp ==
    features # NotFeatures /\ Balanced(structure_pattern) =>
       /\ features.keys
       /\ features.total_length = Len(structure_pattern)
       /\ features.paired_bases = 2 * Cardinality(PairSet(structure_pattern))
       /\ features.unpaired_bases = features.total_length - features.paired_bases

\* C21 as amended: the same for every valid notation of length at least 1;
\* the report for the empty string holds none of the three counts.
C21_NonEmptyCountsAddUp ==
    features # NotFeatures /\ Balanced(structure_pattern) =>
       IF Len(structure_pattern) = 0
       THEN ~features.keys
       ELSE /\ features.keys
            /\ features.total_length = Len(structure_pattern)
            /\ features.paired_bases = 2 * Cardinality(PairSet(structure_pattern))
            /\ features.unpaired_bases = features.total_length - features.paired_bases

C21_Witness ==
    /\ features.keys
    /\ Balanced(structure_pattern)
    /\ Len(structure_pattern) = 7
    /\ features.paired_bases = 4
    /\ features.unpaired_bases = 3
    /\ structure_pattern[7] = ")"

\* C22: the validator records pairs in the order their closing brackets are
\* met, so the pair list is strictly ascending by close position, and each
\* ')' is paired with the nearest preceding '(' that is still unmatched.
C22_PairsInCloseOrderLIFO ==
    analysis # NotAnalyzed =>
       LET s == structure_pattern
           tr == analysis.stack_trace
           StillOpen(k) == {i \in 0..(tr[k][2] - 1) :
                               s[i + 1] = "(" /\ \A m \in 1..(k - 1) : tr[m][1] # i}
       IN  /\ \A k \in 1..(Len(tr) - 1) : tr[k][2] < tr[k + 1][2]
           /\ \A k \in 1..Len(tr) :
                 /\ s[tr[k][2] + 1] = ")"
                 /\ StillOpen(k) # {}
                 /\ \A i \in StillOpen(k) : i <= tr[k][1]
                 /\ tr[k][1] \in StillOpen(k)

C22_Witness ==
    /\ analysis # NotAnalyzed
    /\ Len(analysis.stack_trace) = 3
    /\ analysis.stack_trace[1][1] > analysis.stack_trace[2][1]
    /\ analysis.stack_trace[2][1] < analysis.stack_trace[3][1]
    /\ analysis.stack_trace[3][2] - analysis.stack_trace[3][1] > 1

\* A pair of s encloses two pairs that lie side by side.
Branching(s) ==
    \E q, a, b \in PairSet(s) :
       q[1] < a[1] /\ a[2] < b[1] /\ b[2] < q[2]

\* C23: analyze reports multiloops = 0 for every non-empty notation,
\* whatever its branching.
C23_NoMultiloops ==
    features # NotFeatures /\ Len(structure_pattern) >= 1 =>
       features.keys /\ features.multiloops = 0

C23_Witness ==
    /\ features.keys
    /\ Balanced(structure_pattern)
    /\ Branching(structure_pattern)
    /\ features.multiloops = 0

\* C24: the bracket-matching scans of the diagnostic validator, of the
\* designer and of the analyzer compute the same pair list, in the same
\* order, for every string, valid or not.
C24_ThreeScansAgree ==
    analysis # NotAnalyzed =>
       /\ analysis.stack_trace = identify_paired_positions(structure_pattern)
       /\ analysis.stack_trace = FeaturePairScan(structure_pattern, 0, <<>>, <<>>)

C24_Witness ==
    /\ analysis # NotAnalyzed
    /\ Len(analysis.stack_trace) = 2
    /\ analysis.stack_trace = identify_paired_positions(structure_pattern)
    /\ \E i \in 0..(Len(structure_pattern) - 1) : IsUnmatchedClose(structure_pattern, i)
    /\ "x" \in Range(structure_pattern)
    /\ analysis.stack_trace[1][1] > analysis.stack_trace[2][1]

\* C25: the two validators agree on every string s: the diagnostic
\* validator returns valid = true, equivalently an empty issues list,
\* exactly when constructing the designer with sequence_length = len(s) and
\* structure_pattern = s raises no error.
C25_ValidatorsAgree ==
    /\ analysis # NotAnalyzed
    /\ pc[1] # "new"
    /\ sequence_length[1] = Len(structure_pattern)
    => /\ analysis.valid <=> ~Rejected(1)
       /\ analysis.valid <=> analysis.issues = <<>>
       /\ Rejected(1) <=> Raised(1) # NoError

C25_Witness ==
    /\ analysis # NotAnalyzed
    /\ sequence_length[1] = Len(structure_pattern)
    /\ via[1] = "direct"
    /\ pc[1] = "raised"
    /\ error[1] = ErrUnmatched
    /\ ~analysis.valid
    /\ EndsWithOpens(structure_pattern)
    /\ Len(structure_pattern) = 4

IsOpenIssue(x) == x.text = "Unmatched opening brackets at positions"

IsUnbalancedIssue(x) == x.text = "Unbalanced brackets"

\* The opens left on the stack, as the result lists them.
OpensLeft(r) ==
    IF \E k \in 1..Len(r.issues) : IsOpenIssue(r.issues[k])
    THEN Len(r.issues[CHOOSE k \in 1..Len(r.issues) : IsOpenIssue(r.issues[k])].positions)
    ELSE 0

\* C26: in the diagnostic result opening_brackets - closing_brackets equals
\* (opens left on the stack) - (unmatched-close issues), so the "Unbalanced
\* brackets" issue never appears without an unmatched-open or
\* unmatched-close issue, while a string with as many of the one as of the
\* other, such as ")(", has no "Unbalanced brackets" issue.
C26_UnbalancedImpliesUnmatched ==
    analysis # NotAnalyzed =>
       LET iss == analysis.issues
           closes == Len(SelectSeq(iss, IsCloseIssue))
           unbalanced == Len(SelectSeq(iss, IsUnbalancedIssue))
       IN  /\ OpensLeft(analysis) = Len(LooseUnclosed(structure_pattern))
           /\ analysis.opening_brackets - analysis.closing_brackets
                 = OpensLeft(analysis) - closes
           /\ unbalanced <= 1
           /\ unbalanced = 1 <=> OpensLeft(analysis) # closes
           /\ unbalanced = 1 => OpensLeft(analysis) > 0 \/ closes > 0

C26_Witness ==
    /\ analysis # NotAnalyzed
    /\ Len(SelectSeq(analysis.issues, IsCloseIssue)) = 2
    /\ OpensLeft(analysis) = 2
    /\ SelectSeq(analysis.issues, IsUnbalancedIssue) = <<>>
    /\ ~analysis.valid

\* C27: the stack_trace of the diagnostic validator is well-formed for
\* every string: each (i, j) has '(' at i and ')' at j with i < j, no
\* position is in two pairs, no two pairs cross, and every ')' is either
\* in exactly one pair or reported as an unmatched closing bracket, never
\* both.
C27_StackTraceWellFormed ==
    analysis # NotAnalyzed =>
       LET s == structure_pattern
           tr == analysis.stack_trace
           iss == analysis.issues
           PairsAt(j) == {k \in 1..Len(tr) : tr[k][2] = j}
           ReportsAt(j) == {k \in 1..Len(iss) : IsCloseIssue(iss[k]) /\ iss[k].pos = j}
       IN  /\ \A k \in 1..Len(tr) :
                 /\ 0 <= tr[k][1] /\ tr[k][1] < tr[k][2] /\ tr[k][2] < Len(s)
                 /\ s[tr[k][1] + 1] = "(" /\ s[tr[k][2] + 1] = ")"
           /\ \A k, m \in 1..Len(tr) :
                 k # m =>
                    /\ {tr[k][1], tr[k][2]} \cap {tr[m][1], tr[m][2]} = {}
                    /\ ~(tr[k][1] < tr[m][1] /\ tr[m][1] < tr[k][2] /\ tr[k][2] < tr[m][2])
           /\ \A j \in 0..(Len(s) - 1) :
                 s[j + 1] = ")" =>
                    \/ Cardinality(PairsAt(j)) = 1 /\ ReportsAt(j) = {}
                    \/ PairsAt(j) = {} /\ Cardinality(ReportsAt(j)) = 1

C27_Witness ==
    /\ analysis # NotAnalyzed
    /\ ~analysis.valid
    /\ Len(analysis.stack_trace) = 2
    /\ analysis.stack_trace[2][1] < analysis.stack_trace[1][1]
    /\ Len(SelectSeq(analysis.issues, IsCloseIssue)) = 1
    /\ analysis.issues[1].pos > analysis.stack_trace[2][2]
    /\ OpensLeft(analysis) = 1

CompatibleSet(s) ==
    {a \in [1..Len(s) -> Bases] :
        \A q \in PairSet(s) : <<a[q[1] + 1], a[q[2] + 1]>> \in BASE_PAIRS}

\* Two draws for which the two-step choice places the pair t, and a draw
\* for which an unpaired position gets the base b; draws of 0 if there are
\* none.
PairDraws(t) ==
    LET D == 0..(Resolution - 1)
        Places(dd) == choice(IF IsGC(dd[1]) THEN GC_CHOICES ELSE AU_CHOICES, dd[2]) = t
    IN  IF \E dd \in D \X D : Places(dd) THEN CHOOSE dd \in D \X D : Places(dd)
        ELSE <<0, 0>>

BaseDraw(b) ==
    LET D == 0..(Resolution - 1)
    IN  IF \E d \in D : choice(UNPAIRED_BASES, d) = b
        THEN CHOOSE d \in D : choice(UNPAIRED_BASES, d) = b
        ELSE 0

\* The draws that make a design of s return a: those of each pair in the
\* order of the pair list, then that of each '.' from left to right.
DrawsFor(s, a) ==
    LET pairs == identify_paired_positions(s)
        np == Len(pairs)
        dots == Ascending({i \in 0..(Len(s) - 1) : s[i + 1] = "."})
    IN  [n \in 1..(2 * np + Len(dots)) |->
            IF n <= 2 * np
            THEN LET q == pairs[(n + 1) \div 2]
                 IN  PairDraws(<<a[q[1] + 1], a[q[2] + 1]>>)[2 - (n % 2)]
            ELSE BaseDraw(a[dots[n - 2 * np] + 1])]

\* C29: the sequences design can return for a valid notation are exactly
\* the compatible sequences: what it returns is compatible and is decided
\* by the draws it took, and for every compatible sequence there are draws
\* for which it returns that sequence.
C29_ReturnsExactlyCompatible ==
    /\ pc[1] = "done" =>
          /\ result[1].str \in CompatibleSet(structure_pattern)
          /\ result[1].str
                = DesignAlone(structure_pattern,
                              SubSeq(stream, rng_start[1] + 1,
                                     rng_start[1] + DrawsNeeded(structure_pattern)))
    /\ pc[1] = "ready" =>
          \A a \in CompatibleSet(structure_pattern) :
             /\ DrawsFor(structure_pattern, a)
                   \in [1..DrawsNeeded(structure_pattern) -> 0..(Resolution - 1)]
             /\ DesignAlone(structure_pattern, DrawsFor(structure_pattern, a)) = a

C29_Witness ==
    /\ pc[1] = "done"
    /\ Len(structure_pattern) = 4
    /\ Cardinality(PairSet(structure_pattern)) = 1
    /\ result[1].str \in CompatibleSet(structure_pattern)
    /\ \E i \in 1..4 : structure_pattern[i] = "." /\ result[1].str[i] = "U"
    /\ \E i \in 1..4 : structure_pattern[i] = "(" /\ result[1].str[i] = "U"
    /\ stream = DrawsFor(structure_pattern, result[1].str)

\* The pairs of the list, 1-based, and the same 0-based.
PairsGiven == Range(base_pairs)

ZeroBased(P) == {<<q[1] - 1, q[2] - 1>> : q \in P}

InRange(q) == 1 <= q[1] /\ q[1] <= length /\ 1 <= q[2] /\ q[2] <= length

Opening(P) == \A q \in P : q[1] < q[2]

Disjoint(P) == \A q, r \in P : q # r => {q[1], q[2]} \cap {r[1], r[2]} = {}

Crossing(P) == \E q, r \in P : q[1] < r[1] /\ r[1] < q[2] /\ q[2] < r[2]

\* The scan of the built notation returns the pairs it was built from.
RoundTrips == Range(analysis.stack_trace) = ZeroBased(PairsGiven)

\* C30: a notation built from a 1-based pair list round-trips through the
\* bracket-matching scan exactly when the pairs are in range,
\* position-disjoint, have i < j and do not cross; for disjoint pairs with
\* i < j of which two cross, the built string is still a balanced notation
\* but the scan returns a different pair set.
C30_BuildRoundTrip ==
    /\ built # NotBuilt => Len(built) = length
    /\ built # NotBuilt /\ analysis # NotAnalyzed =>
          /\ RoundTrips
                <=> /\ \A q \in PairsGiven : InRange(q)
                    /\ Opening(PairsGiven)
                    /\ Disjoint(PairsGiven)
                    /\ ~Crossing(PairsGiven)
          /\ Opening(PairsGiven) /\ Disjoint(PairsGiven) /\ Crossing(PairsGiven)
                => Balanced(built) /\ ~RoundTrips

C30_Witness ==
    /\ built # NotBuilt
    /\ analysis # NotAnalyzed
    /\ Cardinality(PairsGiven) = 2
    /\ \A q \in PairsGiven : InRange(q)
    /\ Opening(PairsGiven) /\ Disjoint(PairsGiven) /\ Crossing(PairsGiven)
    /\ Balanced(built)
    /\ Len(analysis.stack_trace) = 2
    /\ ~RoundTrips

====
